---- MODULE Spec2Model ----
(***************************************************************************)
(* A model of sveltekit-server-functions (src/src/lib/index.ts).           *)
(*                                                                         *)
(* A document is a sequence of lexical units (tokens); an offset counts    *)
(* units, 0-based and half-open as String.prototype.slice takes them.      *)
(* The Svelte/acorn parser is modelled by a recursive-descent parser of a  *)
(* small component language: markup text and {expression} tags, one        *)
(* <script> with import declarations, function declarations, expression   *)
(* statements, calls, array literals and the fetch expression the          *)
(* preprocessor itself writes.                                             *)
(***************************************************************************)
EXTENDS Naturals, Sequences, FiniteSets, TLC

(***************************************************************************)
(* Lexical units                                                           *)
(***************************************************************************)
WS == {" ", "\n"}

ServerNames == {"server_f", "server_g"}

PlainNames == {"a", "b", "x", "h"}

Identifiers == ServerNames \cup PlainNames

Literals == {"1", "2"}

ImportA == "import { a } from 'm';"

ImportB == "import { b } from 'n';"

ImportAB == "import { a, b } from 'm';"

ImportSide == "import './side.css';"

ImportToks == {ImportA, ImportB, ImportAB, ImportSide}

\* specifier.local.name of every specifier of an import declaration
ImportNames(tok) ==
    CASE tok = ImportA -> {"a"}
      [] tok = ImportB -> {"b"}
      [] tok = ImportAB -> {"a", "b"}
      [] OTHER -> {}

\* the fixed text of the template literal of generateFetchCall
FetchHead == "fetch('/api/"

FetchMid == "', { method: 'POST', headers: {...}, body: JSON.stringify("

FetchTail == ") }).then(response => {...})"

\* `"${i}": ` for the i-th piece of the argument text
KeyToks == <<"\"0\": ", "\"1\": ", "\"2\": ", "\"3\": ", "\"4\": ", "\"5\": ",
             "\"6\": ", "\"7\": ", "\"8\": ", "\"9\": ", "\"10\": ", "\"11\": ">>

Key(i) == KeyToks[i + 1]

KeySet == {KeyToks[i] : i \in 1..Len(KeyToks)}

\* Identifier nodes of the fixed text of the fetch expression
FetchIds == {"fetch", "method", "headers", "body", "JSON", "stringify", "then",
             "response", "ok", "Error", "statusText", "json"}

(***************************************************************************)
(* String operations on unit sequences                                     *)
(***************************************************************************)
Min(a, b) == IF a < b THEN a ELSE b

Range(seq) == {seq[i] : i \in 1..Len(seq)}

\* String.prototype.slice(from, to) for 0 <= from, to
slice(s, from, to) == SubSeq(s, Min(from, Len(s)) + 1, Min(to, Len(s)))

sliceFrom(s, from) == slice(s, from, Len(s))

RECURSIVE trimEnd(_)
trimEnd(s) ==
    IF s # <<>> /\ s[Len(s)] \in WS THEN trimEnd(SubSeq(s, 1, Len(s) - 1)) ELSE s

RECURSIVE trimStart(_)
trimStart(s) ==
    IF s # <<>> /\ s[1] \in WS THEN trimStart(Tail(s)) ELSE s

trim(s) == trimEnd(trimStart(s))

\* a marker test that every text passes
includesMarker_Always(s) == TRUE

\* content.includes('async function server_')
includesMarker(s) ==
    \E i \in 1..Len(s) :
        /\ i + 4 <= Len(s)
        /\ s[i] = "async"
        /\ s[i + 1] = " "
        /\ s[i + 2] = "function"
        /\ s[i + 3] = " "
        /\ s[i + 4] \in ServerNames

\* name.startsWith('server_')
startsWithServer(name) == name \in ServerNames

\* params.split(','): the pieces between the commas of the text
RECURSIVE split(_)
split(s) ==
    IF \E i \in 1..Len(s) : s[i] = ","
    THEN LET i == CHOOSE k \in 1..Len(s) :
                      s[k] = "," /\ \A m \in 1..(k - 1) : s[m] # ","
         IN <<SubSeq(s, 1, i - 1)>> \o split(SubSeq(s, i + 1, Len(s)))
    ELSE <<s>>

(***************************************************************************)
(* The parser: parse(content, { modern: true })                            *)
(***************************************************************************)
Tok(t, i) == IF i >= 1 /\ i <= Len(t) THEN t[i] ELSE "<eof>"

RECURSIVE SkipWs(_, _)
SkipWs(t, i) == IF i <= Len(t) /\ t[i] \in WS THEN SkipWs(t, i + 1) ELSE i

RECURSIVE SkipSpaces(_, _)
SkipSpaces(t, i) == IF i <= Len(t) /\ t[i] = " " THEN SkipSpaces(t, i + 1) ELSE i

\* the nodes a walk visits: CallExpression, Identifier (refs),
\* FunctionDeclaration, ImportDeclaration
NoNodes == [calls |-> {}, refs |-> {}, funcs |-> {}, imports |-> {}]

Ref(name, i) == [name |-> name, at |-> i - 1]

Names(refs) == {r.name : r \in refs}

PFail == [ok |-> FALSE, next |-> 0, spans |-> <<>>, nodes |-> NoNodes]

POk(next, spans, nodes) == [ok |-> TRUE, next |-> next, spans |-> spans, nodes |-> nodes]

Merge(n1, n2) ==
    [calls |-> n1.calls \cup n2.calls, refs |-> n1.refs \cup n2.refs,
     funcs |-> n1.funcs \cup n2.funcs, imports |-> n1.imports \cup n2.imports]

RECURSIVE ParseExpr(_, _)
RECURSIVE ParseElems(_, _, _, _, _)
RECURSIVE ParseStmts(_, _, _, _)
RECURSIVE ParseParams(_, _, _)
RECURSIVE ParseRoot(_, _, _)

\* the nodes `first`, then what the rest of a list gave
Then(first, r) ==
    IF r.ok THEN POk(r.next, r.spans, Merge(first, r.nodes)) ELSE PFail

\* after one element e of a list, which began at unit k
ElemsAfter(t, close, keyed, k, spans, e) ==
    IF ~e.ok THEN PFail
    ELSE IF Tok(t, SkipWs(t, e.next)) = close
    THEN POk(SkipWs(t, e.next) + 1, Append(spans, <<k - 1, e.next - 1>>), e.nodes)
    ELSE IF Tok(t, SkipWs(t, e.next)) = ","
    THEN Then(e.nodes, ParseElems(t, SkipWs(t, e.next) + 1, close, keyed,
                                  Append(spans, <<k - 1, e.next - 1>>)))
    ELSE PFail

\* a comma-separated list of expressions up to the closing unit; `keyed`: each
\* is a property of an object literal, "key": value
ParseElems(t, i, close, keyed, spans) ==
    IF Tok(t, SkipWs(t, i)) = close THEN POk(SkipWs(t, i) + 1, spans, NoNodes)
    ELSE IF ~keyed
    THEN ElemsAfter(t, close, keyed, SkipWs(t, i), spans, ParseExpr(t, SkipWs(t, i)))
    ELSE IF Tok(t, SkipWs(t, i)) \in KeySet
    THEN ElemsAfter(t, close, keyed, SkipWs(t, SkipWs(t, i) + 1), spans,
                    ParseExpr(t, SkipWs(t, SkipWs(t, i) + 1)))
    ELSE PFail

\* CallExpression: callee c at unit i, arguments l
CallNode(c, i, l) ==
    IF ~l.ok THEN PFail
    ELSE POk(l.next, <<>>,
             Merge(l.nodes,
                   [NoNodes EXCEPT
                      !.refs = {Ref(c, i)},
                      !.calls = {[name |-> c, start |-> i - 1,
                                  end |-> l.next - 1, args |-> l.spans]}]))

\* ArrayExpression
ArrayNode(l) == IF l.ok THEN POk(l.next, <<>>, l.nodes) ELSE PFail

\* the fetch expression, after the properties l of its payload
FetchNode(t, i, l) ==
    IF l.ok /\ Tok(t, l.next) = FetchTail
    THEN POk(l.next + 1, <<>>,
             Merge(l.nodes, [NoNodes EXCEPT !.refs = {Ref(n, i) : n \in FetchIds}]))
    ELSE PFail

ParseExpr(t, i) ==
    IF Tok(t, i) \in Identifiers
    THEN IF Tok(t, SkipWs(t, i + 1)) = "("
         THEN CallNode(t[i], i, ParseElems(t, SkipWs(t, i + 1) + 1, ")", FALSE, <<>>))
         ELSE POk(i + 1, <<>>, [NoNodes EXCEPT !.refs = {Ref(t[i], i)}])
    ELSE IF Tok(t, i) \in Literals THEN POk(i + 1, <<>>, NoNodes)
    ELSE IF Tok(t, i) = "["
    THEN ArrayNode(ParseElems(t, i + 1, "]", FALSE, <<>>))
    ELSE IF /\ Tok(t, i) = FetchHead
            /\ Tok(t, i + 1) \notin WS \cup {"<eof>"}
            /\ Tok(t, i + 2) = FetchMid
            /\ Tok(t, i + 3) = "{"
    THEN FetchNode(t, i, ParseElems(t, i + 4, "}", TRUE, <<>>))
    ELSE PFail

\* the parameter list of a function declaration, up to ")"
ParseParams(t, i, refs) ==
    IF Tok(t, SkipWs(t, i)) = ")"
    THEN POk(SkipWs(t, i) + 1, <<>>, [NoNodes EXCEPT !.refs = refs])
    ELSE IF Tok(t, SkipWs(t, i)) \notin Identifiers THEN PFail
    ELSE IF Tok(t, SkipWs(t, SkipWs(t, i) + 1)) = ")"
    THEN POk(SkipWs(t, SkipWs(t, i) + 1) + 1, <<>>,
             [NoNodes EXCEPT !.refs = refs \cup {Ref(t[SkipWs(t, i)], SkipWs(t, i))}])
    ELSE IF Tok(t, SkipWs(t, SkipWs(t, i) + 1)) = ","
    THEN ParseParams(t, SkipWs(t, SkipWs(t, i) + 1) + 1,
                     refs \cup {Ref(t[SkipWs(t, i)], SkipWs(t, i))})
    ELSE PFail

\* FunctionDeclaration from unit j, named by unit n, after its body
FuncNode(t, j, n, top, params, block) ==
    IF ~block.ok THEN PFail
    ELSE POk(block.next, <<>>,
             [block.nodes EXCEPT
                !.refs = {Ref(t[n], n)} \cup params \cup block.nodes.refs,
                !.funcs = @ \cup {[name |-> t[n], async |-> t[j] = "async",
                                   start |-> j - 1, end |-> block.next - 1,
                                   ids |-> {t[n]} \cup Names(params)
                                               \cup Names(block.nodes.refs),
                                   top |-> top]}])

\* ... after its parameters ps
FuncBody(t, j, n, top, ps) ==
    IF ~ps.ok \/ Tok(t, SkipWs(t, ps.next)) # "{" THEN PFail
    ELSE FuncNode(t, j, n, top, ps.nodes.refs,
                  ParseStmts(t, SkipWs(t, ps.next) + 1, "}", FALSE))

\* ... from its `function` keyword at unit k
FuncHead(t, j, k, top) ==
    IF \/ Tok(t, k) # "function"
       \/ SkipWs(t, k + 1) = k + 1
       \/ Tok(t, SkipWs(t, k + 1)) \notin Identifiers
       \/ Tok(t, SkipWs(t, SkipWs(t, k + 1) + 1)) # "("
    THEN PFail
    ELSE FuncBody(t, j, SkipWs(t, k + 1), top,
                  ParseParams(t, SkipWs(t, SkipWs(t, k + 1) + 1) + 1, {}))

\* [async] function name(params) { statements }: no line break after async
ParseFunc(t, j, top) ==
    IF Tok(t, j) = "async"
    THEN IF SkipSpaces(t, j + 1) = j + 1 THEN PFail
         ELSE FuncHead(t, j, SkipSpaces(t, j + 1), top)
    ELSE FuncHead(t, j, j, top)

\* ImportDeclaration at unit j, then the rest r
ImportThen(t, j, r) ==
    IF ~r.ok THEN PFail
    ELSE POk(r.next, <<>>,
             [r.nodes EXCEPT !.imports =
                 @ \cup {[tok |-> t[j], start |-> j - 1, end |-> j,
                          names |-> ImportNames(t[j])]}])

\* a function declaration f, then the rest
FuncThen(t, close, top, f) ==
    IF ~f.ok THEN PFail ELSE Then(f.nodes, ParseStmts(t, f.next, close, top))

\* an expression statement e, then the rest
ExprThen(t, close, top, e) ==
    IF ~e.ok \/ Tok(t, SkipWs(t, e.next)) # ";" THEN PFail
    ELSE Then(e.nodes, ParseStmts(t, SkipWs(t, e.next) + 1, close, top))

\* the statement at unit j, and those after it
ParseStmtAt(t, j, close, top) ==
    IF Tok(t, j) = close THEN POk(j + 1, <<>>, NoNodes)
    ELSE IF Tok(t, j) = ";" THEN ParseStmts(t, j + 1, close, top)
    ELSE IF Tok(t, j) \in ImportToks
    THEN IF top THEN ImportThen(t, j, ParseStmts(t, j + 1, close, top)) ELSE PFail
    ELSE IF Tok(t, j) \in {"async", "function"}
    THEN FuncThen(t, close, top, ParseFunc(t, j, top))
    ELSE ExprThen(t, close, top, ParseExpr(t, j))

\* the statements of the script (top) or of a function body, up to `close`
ParseStmts(t, i, close, top) == ParseStmtAt(t, SkipWs(t, i), close, top)

ParseError == [ok |-> FALSE, hasInstance |-> FALSE, instance |-> NoNodes, fragment |-> NoNodes]

\* after the instance script s
ScriptThen(t, acc, s) ==
    IF ~s.ok THEN ParseError
    ELSE ParseRoot(t, s.next, [acc EXCEPT !.hasInstance = TRUE, !.instance = s.nodes])

\* after the expression e of an {expression} tag
TagThen(t, acc, e) ==
    IF ~e.ok \/ Tok(t, SkipWs(t, e.next)) # "}" THEN ParseError
    ELSE ParseRoot(t, SkipWs(t, e.next) + 1, [acc EXCEPT !.fragment = Merge(@, e.nodes)])

\* the markup (fragment) with at most one instance <script>
ParseRoot(t, i, acc) ==
    IF i > Len(t) THEN acc
    ELSE IF t[i] = "<script>"
    THEN IF acc.hasInstance THEN ParseError
         ELSE ScriptThen(t, acc, ParseStmts(t, i + 1, "</script>", TRUE))
    ELSE IF t[i] = "</script>" THEN ParseError
    ELSE IF t[i] = "{" THEN TagThen(t, acc, ParseExpr(t, SkipWs(t, i + 1)))
    ELSE ParseRoot(t, i + 1, acc)

parse(text) ==
    ParseRoot(text, 1, [ok |-> TRUE, hasInstance |-> FALSE,
                        instance |-> NoNodes, fragment |-> NoNodes])

(***************************************************************************)
(* Paths (node's path module, POSIX): a path is a sequence of segments; an *)
(* absolute path starts with the segment "/".                              *)
(***************************************************************************)
\* process.cwd()
Cwd == <<"/", "proj">>

\* filename is undefined
NoFilename == <<>>

isAbsolute(p) == p # <<>> /\ p[1] = "/"

\* path.normalize: "." segments dropped, "seg/.." resolved
RECURSIVE normalizeFrom(_, _)
normalizeFrom(done, rest) ==
    IF rest = <<>> THEN done
    ELSE IF Head(rest) = "." THEN normalizeFrom(done, Tail(rest))
    ELSE IF Head(rest) = ".." /\ done # <<>> /\ done[Len(done)] \notin {"..", "/"}
    THEN normalizeFrom(SubSeq(done, 1, Len(done) - 1), Tail(rest))
    ELSE IF Head(rest) = ".." /\ done # <<>> /\ done[Len(done)] = "/"
    THEN normalizeFrom(done, Tail(rest))
    ELSE normalizeFrom(Append(done, Head(rest)), Tail(rest))

normalize(p) == normalizeFrom(<<>>, p)

\* path.join
join(p, q) == normalize(p \o q)

\* path.resolve of one path against the working directory
resolve(p) == IF isAbsolute(p) THEN normalize(p) ELSE normalize(Cwd \o p)

RECURSIVE commonPrefix(_, _)
commonPrefix(p, q) ==
    IF p # <<>> /\ q # <<>> /\ Head(p) = Head(q)
    THEN 1 + commonPrefix(Tail(p), Tail(q))
    ELSE 0

\* path.relative(from, to)
relative(from, to) ==
    LET f == resolve(from)
        t == resolve(to)
        c == commonPrefix(f, t)
    IN [i \in 1..(Len(f) - c) |-> ".."] \o SubSeq(t, c + 1, Len(t))

\* path.dirname
dirname(p) == SubSeq(p, 1, Len(p) - 1)

\* file names that end with '.svelte'
SvelteNames == {"p1216010.svelte", "p5048752.svelte"}

endsWithSvelte(p) == p # <<>> /\ p[Len(p)] \in SvelteNames

\* const skipPaths = ['.svelte-kit', 'node_modules']
skipPaths == {".svelte-kit", "node_modules"}

\* String.prototype.includes on one segment of a path: the segment is the
\* text, or holds it after other characters
includes(segment, searchString) == segment \in {searchString, "my" \o searchString}

isSkippableFile(filename) ==
    IF filename = NoFilename \/ ~endsWithSvelte(filename) THEN TRUE
    ELSE \E i \in 1..Len(filename) : \E skipPath \in skipPaths : includes(filename[i], skipPath)

(***************************************************************************)
(* State                                                                   *)
(***************************************************************************)
VARIABLES
    \* the file system and the digest
    files,        \* the documents under src/: relative path -> content
    apiExists,    \* whether src/routes/api exists
    api,          \* the entries of src/routes/api: name -> [isDir, hasServer, server]
    faults,       \* the file-system calls that throw
    \* serverFunctions(): the startup sequence
    spc,          \* where the startup sequence is
    scanLeft,     \* the files readdirSync returned that forEach has not visited
    pending,      \* processFile: the document and its functions still to emit
    run,          \* how many times serverFunctions() has been called
    writes,       \* fs.writeFileSync calls of the current run
    created,      \* the endpoints createEndpoint has emitted in the current run
    removed,      \* the directories cleanupEndpoints removed in the current run
    issued,       \* every routePath generatePaths returned, per hashed string
    \* transformFile(content, filename)
    tpc,          \* where the transform is
    filename,     \* its filename argument
    original,     \* its content argument
    content,      \* ServerFunctionTransformer.content
    ast,          \* ServerFunctionTransformer.ast
    todo,         \* the server functions forEach has not visited
    result,       \* the code it returned
    parses,       \* parse() calls of this transformFile call
    parseFailed,  \* whether one of them threw
    log,          \* the calls rewritten: what was found, sliced and written
    pass,         \* how many times the hook has run on this document
    given,        \* the content of the first of these calls
    \* one request to a generated handler
    wpc,          \* where the request is
    callArgs,     \* the values of the arguments of the original call
    body,         \* the request body: JSON text as a sequence of <<key, value>>
    invoked       \* the argument list the handler called the function with

fsVars == <<files, apiExists, api, faults>>

startVars == <<spc, scanLeft, pending, run, writes, created, removed>>

transVars ==
    <<tpc, filename, original, content, ast, todo, result, parses, parseFailed, log,
      pass, given>>

wireVars == <<wpc, callArgs, body, invoked>>

vars == <<fsVars, startVars, issued, transVars, wireVars>>

(***************************************************************************)
(* PathUtils                                                               *)
(***************************************************************************)
\* two documents under src/, and the path of a call without a filename
RelA == <<"routes", "p1216010.svelte">>

RelB == <<"routes", "p5048752.svelte">>

Unknown == <<"unknown">>

HashPaths == {RelA, RelB, Unknown}

HashInputs == HashPaths \X ServerNames

\* crypto.createHash('sha256').update(str).digest('base64url').slice(0, 8) of
\* the string `${relativePath}:${functionName}`
sha256 ==
    [str \in HashInputs |->
        CASE str = <<RelA, "server_f">> -> "Ne9sSC9D"
          [] str = <<RelA, "server_g">> -> "xW60vYL0"
          [] str = <<RelB, "server_f">> -> "Ne9sSC9D"
          [] str = <<RelB, "server_g">> -> "4XD4oiyj"
          [] str = <<Unknown, "server_f">> -> "Z05viW8M"
          [] str = <<Unknown, "server_g">> -> "t1aqGRiN"]

generatePaths(functionName, file) ==
    LET relativePath == IF file # NoFilename
                        THEN relative(join(Cwd, <<"src">>), normalize(file))
                        ELSE Unknown
        str == <<relativePath, functionName>>
        hash == sha256[str]
        uniquePath == functionName \o "_" \o hash
    IN [apiPath |-> join(Cwd, <<"src", "routes", "api", uniquePath, "+server.ts">>),
        routePath |-> uniquePath,
        str |-> str]

(***************************************************************************)
(* AstUtils                                                                *)
(***************************************************************************)
\* Array.prototype.sort((a, b) => b.start - a.start)
RECURSIVE sortDescending(_)
sortDescending(S) ==
    IF S = {} THEN <<>>
    ELSE LET m == CHOOSE e \in S : \A o \in S : o.start <= e.start
         IN <<m>> \o sortDescending(S \ {m})

findServerFunctions(tree) ==
    IF ~tree.hasInstance THEN {}
    ELSE {f \in tree.instance.funcs : f.async /\ startsWithServer(f.name)}

\* arguments[0]?.start || end - 1, arguments[length - 1]?.end || end - 1
FunctionCall(node) ==
    [start |-> node.start,
     end |-> node.end,
     arguments |->
        [start |-> IF node.args # <<>> /\ node.args[1][1] # 0
                   THEN node.args[1][1] ELSE node.end - 1,
         end |-> IF node.args # <<>> /\ node.args[Len(node.args)][2] # 0
                 THEN node.args[Len(node.args)][2] ELSE node.end - 1]]

findFunctionCalls(tree, functionName) ==
    {FunctionCall(c) : c \in {n \in tree.fragment.calls \cup tree.instance.calls :
                                  n.name = functionName}}

collectUsedIdentifiers(tree) ==
    IF ~tree.hasInstance THEN {} ELSE Names(tree.instance.refs)

findUnusedImports(tree, usedIdentifiers) ==
    IF ~tree.hasInstance THEN {}
    ELSE {[start |-> i.start, end |-> i.end] :
             i \in {d \in tree.instance.imports :
                       \A name \in d.names : name \notin usedIdentifiers}}

\* the import declarations of the script in source order
RECURSIVE sortAscending(_)
sortAscending(S) ==
    IF S = {} THEN <<>>
    ELSE LET m == CHOOSE e \in S : \A o \in S : e.start <= o.start
         IN <<m>> \o sortAscending(S \ {m})

RECURSIVE importTexts(_, _, _)
importTexts(text, decls, seen) ==
    IF decls = <<>> THEN <<>>
    ELSE LET t == slice(text, Head(decls).start, Head(decls).end) IN
         IF t \in seen THEN importTexts(text, Tail(decls), seen)
         ELSE <<t>> \o importTexts(text, Tail(decls), seen \cup {t})

\* every import declaration of the script
relevantImports_All(tree, usedIdentifiers) ==
    IF ~tree.hasInstance THEN {} ELSE tree.instance.imports

\* the import declarations of the tree that bind an identifier of the function
relevantImports(tree, usedIdentifiers) ==
    IF ~tree.hasInstance THEN {}
    ELSE {d \in tree.instance.imports : \E name \in d.names : name \in usedIdentifiers}

extractFunctionDetails(text, serverFunc) ==
    [imports |-> importTexts(text, sortAscending(relevantImports(parse(text), serverFunc.ids)), {}),
     functionDefinition |-> slice(text, serverFunc.start, serverFunc.end)]

(***************************************************************************)
(* ServerFunctionTransformer                                               *)
(***************************************************************************)
\* .map((p, i) => `"${i}": ${p.trim()}`).join(',')
RECURSIVE keyedPieces(_, _)
keyedPieces(pieces, i) ==
    IF pieces = <<>> THEN <<>>
    ELSE <<Key(i)>> \o trim(Head(pieces))
         \o (IF Len(pieces) > 1 THEN <<",">> \o keyedPieces(Tail(pieces), i + 1) ELSE <<>>)

payloadOf(params) ==
    IF trim(params) # <<>>
    THEN <<"{">> \o keyedPieces(split(params), 0) \o <<"}">>
    ELSE <<"{", "}">>

generateFetchCall(routePath, params) ==
    <<FetchHead, routePath, FetchMid>> \o payloadOf(params) \o <<FetchTail>>

\* calls.sort(...).forEach(call => ...): the buffer after the calls are replaced,
\* and what each replacement sliced and wrote
RECURSIVE rewriteCalls(_, _, _, _, _)
\* one replacement: the call found, the text at its span, the text written
rewritten(text, call, name, routePath, argsText, fetchCall) ==
    [name |-> name, call |-> call, routePath |-> routePath,
     at |-> slice(text, call.start, call.end),
     argsText |-> argsText, fetchCall |-> fetchCall]

rewriteCall(text, call, fetchCall) ==
    slice(text, 0, call.start) \o fetchCall \o sliceFrom(text, call.end)

rewriteCalls(text, calls, name, routePath, written) ==
    IF calls = <<>> THEN [content |-> text, log |-> written]
    ELSE rewriteCalls(
            rewriteCall(text, Head(calls),
                generateFetchCall(routePath,
                    slice(text, Head(calls).arguments.start, Head(calls).arguments.end))),
            Tail(calls), name, routePath,
            Append(written,
                rewritten(text, Head(calls), name, routePath,
                    slice(text, Head(calls).arguments.start, Head(calls).arguments.end),
                    generateFetchCall(routePath,
                        slice(text, Head(calls).arguments.start, Head(calls).arguments.end)))))

\* slice(0, start).trimEnd() + '\n' + slice(end).trimStart()
removeSpan(text, node) ==
    trimEnd(slice(text, 0, node.start)) \o <<"\n">> \o trimStart(sliceFrom(text, node.end))

RECURSIVE removeSpans(_, _)
removeSpans(text, nodes) ==
    IF nodes = <<>> THEN text ELSE removeSpans(removeSpan(text, Head(nodes)), Tail(nodes))

\* the buffer after cleanupUnusedImports, and whether its parse threw
pruneImports(text, updatedAst) ==
    IF ~updatedAst.ok THEN [content |-> text, threw |-> TRUE]
    ELSE [content |->
             removeSpans(text,
                 sortDescending(findUnusedImports(updatedAst,
                                                  collectUsedIdentifiers(updatedAst)))),
          threw |-> FALSE]

cleanupUnusedImports(text) == pruneImports(text, parse(text))

\* the definition removed from the rewritten buffer, then the import cleanup
removeAndCleanup(rw, serverFunc, cleaned) ==
    [content |-> cleaned.content, threw |-> cleaned.threw, log |-> rw.log]

afterRewrite(rw, serverFunc) ==
    removeAndCleanup(rw, serverFunc, cleanupUnusedImports(removeSpan(rw.content, serverFunc)))

transformServerFunction(text, tree, serverFunc, routePath) ==
    afterRewrite(rewriteCalls(text, sortDescending(findFunctionCalls(tree, serverFunc.name)),
                              serverFunc.name, routePath, <<>>),
                 serverFunc)

(***************************************************************************)
(* The documents the transform is run on                                   *)
(***************************************************************************)
\* the most arguments of a call of the documents
MaxArgs == 2

Script(stmts) == <<"<script>", "\n">> \o stmts \o <<"</script>", "\n">>

Def(name, stmts) ==
    <<"async", " ", "function", " ", name, "(", "x", ")", " ", "{">> \o stmts \o <<"}", "\n">>

Call(name, args) == <<name, "(">> \o args \o <<")">>

Stmt(expr) == expr \o <<";", "\n">>

Tag(expr) == <<"{">> \o expr \o <<"}", "\n">>

InH(stmts) == <<"function", " ", "h", "(", ")", " ", "{">> \o stmts \o <<"}", "\n">>

ArgAtoms == {<<"1">>, <<"x">>, <<"[", "1", ",", "2", "]">>, Call("server_f", <<>>)}

RECURSIVE ArgLists(_)
ArgLists(n) ==
    IF n = 0 THEN {<<>>}
    ELSE ArgLists(n - 1) \cup
         {IF l = <<>> THEN a ELSE l \o <<",", " ">> \o a :
              l \in {m \in ArgLists(n - 1) : n = 1 \/ m # <<>>}, a \in ArgAtoms}

\* one call of server_f with every argument list, in the markup or the script
ArgDocs ==
    {Script(Def("server_f", <<>>)) \o Tag(Call("server_f", args)) : args \in ArgLists(MaxArgs)}
    \cup {Script(Def("server_f", <<>>) \o Stmt(Call("server_f", args))) : args \in ArgLists(MaxArgs)}

\* calls before, inside and after the definition, with a second tagged function
PlaceDocs ==
    {mb \o Script(pre \o g1 \o Def("server_f", inner) \o g2 \o post) \o ma :
        mb \in {<<>>, Tag(Call("server_f", <<>>))},
        pre \in {<<>>, Stmt(Call("server_f", <<"1">>)), InH(Stmt(Call("server_f", <<>>)))},
        g1 \in {<<>>, Def("server_g", <<>>)},
        inner \in {<<>>, Stmt(Call("server_f", <<"x">>))},
        g2 \in {<<>>, Def("server_g", <<>>)},
        post \in {<<>>, Stmt(Call("server_f", <<"1">>)), Stmt(Call("server_g", <<>>))},
        ma \in {<<>>, Tag(Call("server_f", <<"1">>)), Tag(Call("server_g", <<>>)), <<"txt", "\n">>}}

\* import declarations used by the tagged function, the script, the markup
ImportDocs ==
    {Script(imports \o Def("server_f", inner) \o use) \o ma :
        imports \in {<<ImportA, "\n">>, <<ImportA, "\n", ImportB, "\n">>,
                     <<ImportAB, "\n">>, <<ImportSide, "\n">>},
        inner \in {<<>>, Stmt(Call("a", <<"x">>))},
        use \in {<<>>, Stmt(<<"a">>), Stmt(<<"b">>)},
        ma \in {<<>>, Tag(<<"a">>), Tag(Call("server_f", <<>>))}}

OtherDocs ==
    { \* no script: the marker text in the markup
      <<"txt", "async", " ", "function", " ", "server_f", "\n">>,
      \* no marker
      Script(Stmt(<<"x">>)) \o <<"txt", "\n">>,
      \* a tagged function, and the marker text in the markup
      Script(Def("server_f", <<>>) \o Stmt(Call("server_f", <<"1">>)))
          \o <<"txt", "async", " ", "function", " ", "server_f", "\n">>,
      \* a syntax error
      Script(Def("server_f", <<>>) \o <<"(", "\n">>) \o Tag(Call("server_f", <<>>)),
      \* two spaces after async
      Script(<<"async", " ">> \o Tail(Def("server_f", <<>>))) \o Tag(Call("server_f", <<>>)),
      \* a function that is not async, beside a tagged one
      Script(Tail(Tail(Def("server_f", <<>>))) \o Def("server_g", <<>>))
          \o Tag(Call("server_f", <<>>)),
      \* a tagged function declared inside another function
      Script(InH(Def("server_f", <<>>) \o Stmt(Call("server_f", <<"1">>)))) }

Docs == ArgDocs \cup PlaceDocs \cup ImportDocs \cup OtherDocs

(***************************************************************************)
(* The project: the documents under src/, and the names the host passes    *)
(***************************************************************************)
SrcDir == join(Cwd, <<"src">>)

\* the forms in which the host names one file of the project
HostNames(rel) ==
    {SrcDir \o rel, <<"src">> \o rel, <<"/", "proj", ".", "src">> \o rel}

Filenames ==
    HostNames(RelA)
    \cup {NoFilename,
          SrcDir \o <<"routes", "a.ts">>,
          <<"/", "proj", "node_modules", "pkg", "p1216010.svelte">>,
          <<"/", "proj", ".svelte-kit", "p1216010.svelte">>,
          <<"/", "proj", "src", "my.svelte-kit", "p1216010.svelte">>}

(***************************************************************************)
(* transformFile(content, filename): the markup and script hooks           *)
(***************************************************************************)
NoPending == [file |-> <<>>, content |-> <<>>, funcs |-> <<>>]

fsOff ==
    /\ files = <<>>
    /\ apiExists = FALSE
    /\ api = <<>>
    /\ faults = {}

startOff ==
    /\ spc = "off"
    /\ scanLeft = {}
    /\ pending = NoPending
    /\ run = 0
    /\ writes = 0
    /\ created = {}
    /\ removed = {}

wireOff ==
    /\ wpc = "off"
    /\ callArgs = <<>>
    /\ body = <<>>
    /\ invoked = <<>>

\* a call of the hook with these arguments, not yet run
transCalled(text, file) ==
    /\ tpc = "called"
    /\ filename = file
    /\ original = text
    /\ content = <<>>
    /\ ast = ParseError
    /\ todo = <<>>
    /\ result = <<>>
    /\ parses = 0
    /\ parseFailed = FALSE
    /\ log = <<>>
    /\ pass = 1
    /\ given = text

InitTransform ==
    /\ fsOff
    /\ startOff
    /\ wireOff
    /\ issued = [i \in HashInputs |-> {}]
    /\ \E text \in Docs, file \in Filenames : transCalled(text, file)

\* a process() that ends the text it returns with a line break
\* a catch clause that logs: control goes on at pc
caught_Rethrown(pc) == "threw"

caught(pc) == pc

returned_Terminated(text) == text \o <<"\n">>

\* process(): return this.content
returned(text) == text

\* new ServerFunctionTransformer(content, filename) and process() up to its forEach
Construct(tree) ==
    /\ parses' = 1
    /\ IF ~tree.ok
       THEN \* the constructor threw: catch, return { code: content }
            /\ tpc' = caught("done")
            /\ result' = original
            /\ parseFailed' = TRUE
            /\ UNCHANGED <<content, ast, todo>>
       ELSE /\ ast' = tree
            /\ content' = original
            /\ parseFailed' = FALSE
            /\ IF findServerFunctions(tree) = {}
               THEN /\ tpc' = "done"
                    /\ result' = returned(original)
                    /\ todo' = <<>>
               ELSE /\ tpc' = "process"
                    /\ todo' = sortDescending(findServerFunctions(tree))
                    /\ UNCHANGED result

\* transformFile up to the first iteration of process()'s forEach
TransformFile ==
    /\ tpc = "called"
    /\ IF isSkippableFile(filename) \/ ~includesMarker(original)
       THEN /\ tpc' = "done"
            /\ result' = original
            /\ UNCHANGED <<content, ast, todo, parses, parseFailed>>
       ELSE Construct(parse(original))
    /\ UNCHANGED <<filename, original, log, pass, given, issued, fsVars, startVars,
                   wireVars>>

\* one iteration of process()'s forEach, and its return after the last
Transformed(paths, t) ==
    /\ content' = t.content
    /\ parses' = parses + 1
    /\ parseFailed' = (parseFailed \/ t.threw)
    /\ log' = log \o t.log
    /\ todo' = Tail(todo)
    /\ issued' = [issued EXCEPT ![paths.str] = @ \cup {paths.routePath}]
    /\ IF Tail(todo) = <<>>
       THEN tpc' = "done" /\ result' = returned(t.content)
       ELSE tpc' = "process" /\ UNCHANGED result

TransformWith(paths) ==
    Transformed(paths, transformServerFunction(content, ast, Head(todo), paths.routePath))

ProcessFunction ==
    /\ tpc = "process"
    /\ todo # <<>>
    /\ TransformWith(generatePaths(Head(todo).name, filename))
    /\ UNCHANGED <<filename, original, ast, pass, given, fsVars, startVars, wireVars>>

\* the most calls of the hook on one document
MaxPasses == 2

\* the host hands the code a hook returned to the hook again
TransformAgain ==
    /\ tpc = "done"
    /\ pass < MaxPasses
    /\ tpc' = "called"
    /\ original' = result
    /\ pass' = pass + 1
    /\ content' = <<>>
    /\ ast' = ParseError
    /\ todo' = <<>>
    /\ result' = <<>>
    /\ parses' = 0
    /\ parseFailed' = FALSE
    /\ log' = <<>>
    /\ UNCHANGED <<filename, given, issued, fsVars, startVars, wireVars>>

NextTransform == TransformFile \/ ProcessFunction \/ TransformAgain

SpecTransform == InitTransform /\ [][NextTransform]_vars

(***************************************************************************)
(* serverFunctions(): the startup sequence, then the hooks the host calls  *)
(***************************************************************************)
\* the most runs of the build
MaxRuns == 2

\* names of entries of src/routes/api
StaleDir == "server_old_a-XhxVxg"

UserDir == "hello"

PlainFile == "server_notes"

RouteNames == {generatePaths(n, SrcDir \o r).routePath : n \in ServerNames, r \in {RelA, RelB}}

\* a test that every name passes
hasServerPrefix_Any(name) == TRUE

\* endpoint.startsWith('server_')
hasServerPrefix(name) == name \in RouteNames \cup {StaleDir, PlainFile}

Restrict(f, S) == [x \in S |-> f[x]]

\* the template literal of generateApiContent
ApiHead == "import { json } from '@sveltejs/kit'; import type { RequestHandler } from './$types'; export const POST: RequestHandler = async ({ request }) => {"

ApiPayload == "const payload = await request.json(); const args = Object.values(payload) as Parameters<typeof "

ApiAwait == ">; const result = await "

ApiTail == "(...args); return json(result); };"

\* imports.join('\n')
RECURSIVE joinLines(_)
joinLines(texts) ==
    IF texts = <<>> THEN <<>>
    ELSE Head(texts) \o (IF Len(texts) > 1 THEN <<"\n">> \o joinLines(Tail(texts)) ELSE <<>>)

generateApiContent(functionDefinition, functionName, imports) ==
    joinLines(imports) \o <<"\n", "\n", ApiHead>> \o functionDefinition
        \o <<ApiPayload, functionName, ApiAwait, functionName, ApiTail>>

\* a cleanup that finds no entry to remove
staleEndpoints_None(entries) == {}

\* the entries cleanupEndpoints removes
staleEndpoints(entries) == {n \in DOMAIN entries : hasServerPrefix(n) /\ entries[n].isDir}

\* a sweep that hands generatePaths no file path
fullPath_Missing(file) == NoFilename

\* path.join(this.srcDir, file)
fullPath(file) == join(SrcDir, file)

\* processFile up to its forEach: the functions it will emit, in walk order
functionsOfTree(tree) ==
    IF ~tree.ok THEN <<>> ELSE sortAscending(findServerFunctions(tree))

functionsOfFile(text) ==
    IF ~includesMarker(text) THEN <<>> ELSE functionsOfTree(parse(text))

\* where the startup sequence goes after a step
nextStep(funcs, left) ==
    IF funcs # <<>> THEN "emit" ELSE IF left # {} THEN "files" ELSE "ready"

\* the hooks are idle
transIdle ==
    /\ tpc = "idle"
    /\ filename = NoFilename
    /\ original = <<>>
    /\ content = <<>>
    /\ ast = ParseError
    /\ todo = <<>>
    /\ result = <<>>
    /\ parses = 0
    /\ parseFailed = FALSE
    /\ log = <<>>
    /\ pass = 1
    /\ given = <<>>

\* documents of the project
DocOne == Script(Def("server_f", <<>>)) \o Tag(Call("server_f", <<"1">>))

DocTwo ==
    Script(<<ImportA, "\n">> \o Def("server_f", Stmt(Call("a", <<"x">>))) \o Def("server_g", <<>>))
        \o Tag(Call("server_g", <<>>))

DocG == Script(Def("server_g", <<>>)) \o Tag(Call("server_g", <<"1">>))

DocPlain == Script(Stmt(<<"x">>)) \o <<"txt", "\n">>

DocBroken == Script(Def("server_f", <<>>) \o <<"(", "\n">>) \o Tag(Call("server_f", <<>>))

DocSpaced ==
    Script(<<"async", " ">> \o Tail(Def("server_f", <<>>))) \o Tag(Call("server_f", <<>>))

DocNested == Script(InH(Def("server_f", <<>>) \o Stmt(Call("server_f", <<"1">>))))

\* an import of two names, one of them used by server_f, and an import
\* without names
DocImports ==
    Script(<<ImportAB, "\n", ImportSide, "\n">>
           \o Def("server_f", Stmt(Call("b", <<"x">>))) \o Def("server_g", <<>>))
        \o Tag(Call("server_f", <<"1">>))

Absent == <<"absent">>

ProjDocs == {DocOne, DocTwo, DocG, DocPlain, DocBroken, DocSpaced, DocNested, DocImports}

\* the documents of the projects whose file-system calls throw
FaultDocs == {DocOne, DocTwo, DocBroken}

\* a file of src/ that is not a .svelte document
RelT == <<"routes", "a.ts">>

ProjectsOf(docs) ==
    {[r \in {x \in {RelA, RelB} : p[x] # Absent} \cup {RelT} |->
         IF r = RelT THEN Def("server_f", <<>>) ELSE p[r]] :
        p \in [{RelA, RelB} -> docs \cup {Absent}]}

Projects == ProjectsOf(ProjDocs)

Handler(text) == [isDir |-> TRUE, hasServer |-> TRUE, server |-> text]

\* src/routes/api as an earlier build and the user left it
ApiStates ==
    { [exists |-> FALSE, entries |-> <<>>],
      [exists |-> TRUE, entries |-> <<>>],
      [exists |-> TRUE,
       entries |-> [n \in {StaleDir, UserDir, PlainFile} |->
                       IF n = StaleDir THEN Handler(<<"old">>)
                       ELSE IF n = UserDir THEN Handler(<<"user">>)
                       ELSE [isDir |-> FALSE, hasServer |-> FALSE, server |-> <<>>]]] }

\* a file-system call of the startup sequence: readdirSync(apiDir) and the
\* rmSync of one of its entries ("cleanup", with the entry's name),
\* readdirSync(srcDir) ("scan"), readFileSync(file) ("read"), and the
\* mkdirSync, readFileSync and writeFileSync of createEndpoint ("emit")
Fault(kind, file, name) == [kind |-> kind, file |-> file, name |-> name]

FaultPoints ==
    {Fault("cleanup", <<>>, ""), Fault("cleanup", <<>>, StaleDir), Fault("scan", <<>>, "")}
    \cup {Fault("read", file, "") : file \in {RelA, RelB}}
    \cup {Fault("emit", file, name) : file \in {RelA, RelB}, name \in ServerNames}

MaxFaults == 1

FaultSets == {F \in SUBSET FaultPoints : Cardinality(F) <= MaxFaults}

fails(kind, file, name) == Fault(kind, file, name) \in faults

\* createEndpoint's catch: processFile's forEach goes on with the next function
afterEmitError_Abort(funcs) == <<>>

afterEmitError(funcs) == Tail(funcs)

Startup(projects) ==
    /\ \E p \in projects : files = p
    /\ \E a \in ApiStates : apiExists = a.exists /\ api = a.entries
    /\ spc = "cleanup"
    /\ scanLeft = {}
    /\ pending = NoPending
    /\ run = 1
    /\ writes = 0
    /\ created = {}
    /\ removed = {}
    /\ issued = [i \in HashInputs |-> {}]
    /\ transIdle
    /\ wireOff

\* serverFunctions() on a file system whose calls succeed
Init ==
    /\ Startup(Projects)
    /\ faults = {}

\* serverFunctions() on a file system where some calls throw
\* the calls the startup sequence makes on this project
CallsMade ==
    {point \in FaultPoints :
        \/ point.kind = "scan"
        \/ /\ point.kind = "cleanup"
           /\ apiExists
           /\ point.name \in {""} \cup DOMAIN api
        \/ /\ point.kind = "read"
           /\ point.file \in DOMAIN files
        \/ /\ point.kind = "emit"
           /\ point.file \in DOMAIN files
           /\ \E func \in Range(functionsOfFile(files[point.file])) :
                 func.name = point.name}

InitFaults ==
    /\ Startup(ProjectsOf(FaultDocs))
    /\ \E F \in FaultSets : F \subseteq CallsMade /\ faults = F

CleanupEndpoints ==
    /\ spc = "cleanup"
    /\ IF ~apiExists
       THEN /\ UNCHANGED <<api, removed>>
            /\ spc' = "scan"
       ELSE IF fails("cleanup", <<>>, "")
       THEN \* readdirSync threw: no entry is removed
            /\ UNCHANGED <<api, removed>>
            /\ spc' = caught("scan")
       ELSE IF fails("cleanup", <<>>, StaleDir) /\ StaleDir \in DOMAIN api
       THEN \* rmSync threw: the entries forEach visited before are removed
            /\ \E gone \in SUBSET (staleEndpoints(api) \ {StaleDir}) :
                  /\ api' = Restrict(api, DOMAIN api \ gone)
                  /\ removed' = gone
            /\ spc' = caught("scan")
       ELSE /\ api' = Restrict(api, DOMAIN api \ staleEndpoints(api))
            /\ removed' = staleEndpoints(api)
            /\ spc' = "scan"
    /\ UNCHANGED <<files, apiExists, faults, scanLeft, pending, run, writes, created,
                   issued, transVars, wireVars>>

\* scanAndCreateEndpoints up to the first iteration of its forEach
ScanAndCreateEndpoints ==
    /\ spc = "scan"
    /\ IF fails("scan", <<>>, "")
       THEN \* readdirSync threw: no file is visited
            /\ scanLeft' = {}
            /\ spc' = caught("ready")
       ELSE /\ scanLeft' = {file \in DOMAIN files : endsWithSvelte(file)}
            /\ spc' = nextStep(<<>>, scanLeft')
    /\ UNCHANGED <<fsVars, pending, run, writes, created, removed, issued,
                   transVars, wireVars>>

\* processFile up to the first iteration of its forEach
ProcessFile ==
    /\ spc = "files"
    /\ \E file \in scanLeft :
          /\ scanLeft' = scanLeft \ {file}
          /\ IF fails("read", file, "")
             THEN \* readFileSync threw: no function of the file is emitted
                  /\ pending' = [file |-> file, content |-> <<>>, funcs |-> <<>>]
                  /\ spc' = caught(nextStep(<<>>, scanLeft'))
             ELSE /\ pending' = [file |-> file, content |-> files[file],
                                 funcs |-> functionsOfFile(files[file])]
                  /\ spc' = nextStep(pending'.funcs, scanLeft')
    /\ UNCHANGED <<fsVars, run, writes, created, removed, issued, transVars, wireVars>>

\* the test before writeFileSync: no file at the path, or other content in it
needsWrite_Always(entries, dir, apiContent) == TRUE

needsWrite(entries, dir, apiContent) ==
    \/ dir \notin DOMAIN entries
    \/ ~entries[dir].hasServer
    \/ entries[dir].server # apiContent

\* mkdirSync, then writeFileSync unless the file holds apiContent already
Emit(paths, dir, func, apiContent) ==
    /\ issued' = [issued EXCEPT ![paths.str] = @ \cup {paths.routePath}]
    /\ IF dir \in DOMAIN api /\ ~api[dir].isDir
       THEN \* mkdirSync threw: caught and logged
            UNCHANGED <<apiExists, api, writes, created>>
       ELSE /\ apiExists' = TRUE
            /\ created' = created \cup {[file |-> pending.file, name |-> func.name, dir |-> dir]}
            /\ IF needsWrite(api, dir, apiContent)
               THEN /\ api' = [n \in DOMAIN api \cup {dir} |->
                                  IF n = dir THEN Handler(apiContent) ELSE api[n]]
                    /\ writes' = writes + 1
               ELSE UNCHANGED <<api, writes>>

EmitDetails(paths, func, details) ==
    Emit(paths, paths.apiPath[Len(paths.apiPath) - 1], func,
         generateApiContent(details.functionDefinition, func.name, details.imports))

\* createEndpoint when one of its file-system calls throws: mkdirSync may
\* have made the directory before, and nothing is written
EmitFails(paths, dir) ==
    /\ issued' = [issued EXCEPT ![paths.str] = @ \cup {paths.routePath}]
    /\ \E made \in BOOLEAN :
          IF made /\ dir \notin DOMAIN api
          THEN /\ apiExists' = TRUE
               /\ api' = [n \in DOMAIN api \cup {dir} |->
                             IF n = dir
                             THEN [isDir |-> TRUE, hasServer |-> FALSE, server |-> <<>>]
                             ELSE api[n]]
          ELSE UNCHANGED <<apiExists, api>>
    /\ UNCHANGED <<writes, created>>

\* one iteration of processFile's forEach: createEndpoint
CreateEndpoint ==
    /\ spc = "emit"
    /\ pending.funcs # <<>>
    /\ IF fails("emit", pending.file, Head(pending.funcs).name)
       THEN /\ EmitFails(generatePaths(Head(pending.funcs).name, fullPath(pending.file)),
                         generatePaths(Head(pending.funcs).name,
                                       fullPath(pending.file)).apiPath[
                             Len(generatePaths(Head(pending.funcs).name,
                                               fullPath(pending.file)).apiPath) - 1])
            /\ pending' = [pending EXCEPT !.funcs = afterEmitError(@)]
            /\ spc' = caught(nextStep(afterEmitError(pending.funcs), scanLeft))
       ELSE /\ EmitDetails(generatePaths(Head(pending.funcs).name, fullPath(pending.file)),
                           Head(pending.funcs),
                           extractFunctionDetails(pending.content, Head(pending.funcs)))
            /\ pending' = [pending EXCEPT !.funcs = Tail(@)]
            /\ spc' = nextStep(Tail(pending.funcs), scanLeft)
    /\ UNCHANGED <<files, faults, scanLeft, run, removed, transVars, wireVars>>

\* the host calls the markup hook on a document of the project
HostCall ==
    /\ spc = "ready"
    /\ tpc \in {"idle", "done"}
    /\ \E file \in {f \in DOMAIN files : endsWithSvelte(f)} :
          /\ original' = files[file]
          /\ \E name \in HostNames(file) : filename' = name
    /\ tpc' = "called"
    /\ content' = <<>>
    /\ ast' = ParseError
    /\ todo' = <<>>
    /\ result' = <<>>
    /\ parses' = 0
    /\ parseFailed' = FALSE
    /\ log' = <<>>
    /\ pass' = 1
    /\ given' = original'
    /\ UNCHANGED <<fsVars, startVars, issued, wireVars>>

\* the build is started again: serverFunctions() in a new process
Restart ==
    /\ spc = "ready"
    /\ tpc \in {"idle", "done"}
    /\ run < MaxRuns
    /\ run' = run + 1
    /\ spc' = "cleanup"
    /\ scanLeft' = {}
    /\ pending' = NoPending
    /\ writes' = 0
    /\ created' = {}
    /\ removed' = {}
    /\ tpc' = "idle"
    /\ filename' = NoFilename
    /\ original' = <<>>
    /\ content' = <<>>
    /\ ast' = ParseError
    /\ todo' = <<>>
    /\ result' = <<>>
    /\ parses' = 0
    /\ parseFailed' = FALSE
    /\ log' = <<>>
    /\ pass' = 1
    /\ given' = <<>>
    /\ UNCHANGED <<fsVars, issued, wireVars>>

Next ==
    \/ CleanupEndpoints
    \/ ScanAndCreateEndpoints
    \/ ProcessFile
    \/ CreateEndpoint
    \/ HostCall
    \/ TransformFile
    \/ ProcessFunction
    \/ Restart

Spec == Init /\ [][Next]_vars

SpecFaults == InitFaults /\ [][Next]_vars

(***************************************************************************)
(* One call through the wire: the fetch expression evaluated by the client *)
(* and the POST handler of generateApiContent                              *)
(***************************************************************************)
\* the most arguments of the call
MaxCallArgs == 11

\* the value of an argument that evaluates to undefined
Undefined == "undefined"

\* the value of the i-th argument when it is defined
ArgValues == <<"v0", "v1", "v2", "v3", "v4", "v5", "v6", "v7", "v8", "v9", "v10",
               "v11", "v12">>

\* the object literal {"0": a0, "1": a1, ...} of the payload
payloadObject(args) == [k \in 0..(Len(args) - 1) |-> args[k + 1]]

\* the own keys of an object with integer keys: ascending numeric order
RECURSIVE ownKeys(_)
ownKeys(K) ==
    IF K = {} THEN <<>>
    ELSE LET m == CHOOSE k \in K : \A o \in K : k <= o
         IN <<m>> \o ownKeys(K \ {m})

keep(p) == p[2] # Undefined

\* JSON.stringify(object): the properties in own-key order; a property whose
\* value is undefined is left out
stringify(obj) ==
    SelectSeq([i \in 1..Len(ownKeys(DOMAIN obj)) |->
                   <<ownKeys(DOMAIN obj)[i], obj[ownKeys(DOMAIN obj)[i]]>>],
              keep)

\* request.json(): the object the JSON text denotes
requestJson(text) ==
    [k \in {text[i][1] : i \in 1..Len(text)} |->
        (CHOOSE p \in {text[i] : i \in 1..Len(text)} : p[1] = k)[2]]

\* Object.values(payload)
ObjectValues(obj) == [i \in 1..Len(ownKeys(DOMAIN obj)) |-> obj[ownKeys(DOMAIN obj)[i]]]

\* the argument lists of n arguments, each undefined or its own value
RECURSIVE argsOfLen(_)
argsOfLen(n) ==
    IF n = 0 THEN {<<>>}
    ELSE {Append(a, v) : a \in argsOfLen(n - 1), v \in {Undefined, ArgValues[n]}}

CallArgLists == UNION {argsOfLen(n) : n \in 0..MaxCallArgs}

InitHandler ==
    /\ fsOff
    /\ startOff
    /\ transIdle
    /\ issued = [i \in HashInputs |-> {}]
    /\ wpc = "call"
    /\ \E a \in CallArgLists : callArgs = a
    /\ body = <<>>
    /\ invoked = <<>>

\* the client evaluates the fetch expression written for the call
Fetch ==
    /\ wpc = "call"
    /\ body' = stringify(payloadObject(callArgs))
    /\ wpc' = "sent"
    /\ UNCHANGED <<callArgs, invoked, fsVars, startVars, issued, transVars>>

\* the POST handler: request.json(), Object.values, the function called
Post ==
    /\ wpc = "sent"
    /\ invoked' = ObjectValues(requestJson(body))
    /\ wpc' = "invoked"
    /\ UNCHANGED <<callArgs, body, fsVars, startVars, issued, transVars>>

NextHandler == Fetch \/ Post

SpecHandler == InitHandler /\ [][NextHandler]_vars

(***************************************************************************)
(* Properties of the per-document transform                                *)
(***************************************************************************)
\* the tagged functions of the document the transform was given
Tagged == findServerFunctions(ast)

\* process() ran on a parsed document with tagged functions, and returned
Transformed0 == tpc = "done" /\ ast.ok /\ Tagged # {}

\* unit i of the text is the name of a function declaration
IsDeclaredAt(text, i) ==
    \E j \in 1..(i - 1) :
        text[j] = "function" /\ j + 1 < i /\ \A k \in (j + 1)..(i - 1) : text[k] \in WS

\* the units at which a call expression with callee `name` begins
CallsIn(text, name) ==
    {i \in 1..Len(text) :
        text[i] = name /\ Tok(text, SkipWs(text, i + 1)) = "(" /\ ~IsDeclaredAt(text, i)}

\* the units at which a well-formed fetch expression to the route begins
FetchesIn(text, routePath) ==
    {i \in 1..Len(text) :
        text[i] = FetchHead /\ Tok(text, i + 1) = routePath /\ ParseExpr(text, i).ok}

\* C1: after the transform no call named after a tagged function remains, and
\* the text holds one fetch expression to its route for each of its n call sites
C1_CallsBecomeFetches ==
    Transformed0 =>
        \A f \in Tagged :
            /\ CallsIn(result, f.name) = {}
            /\ Cardinality(FetchesIn(result, generatePaths(f.name, filename).routePath))
                   = Cardinality(findFunctionCalls(ast, f.name))

\* C2: when a parse threw, at the start or after the rewriting, transformFile
\* returns the text it was given
C2_FailOpen == (tpc = "done" /\ parseFailed) => result = original

\* offset `at` lies inside the definition of a tagged function
InTagged(at) == \E f \in Tagged : f.start <= at /\ at < f.end

\* a local name of import declaration d is referenced outside every tagged
\* function, in the script or in the markup
UsedElsewhere(d) ==
    \E r \in ast.instance.refs \cup ast.fragment.refs : r.name \in d.names /\ ~InTagged(r.at)

\* a local name of d is referenced inside a tagged function
UsedInTagged(d) == \E r \in ast.instance.refs : r.name \in d.names /\ InTagged(r.at)

\* C3: after the transform an import referenced only inside removed tagged
\* functions is absent, and an import with a name still referenced elsewhere,
\* in the script or in the markup, is present
C3_ImportPruning ==
    Transformed0 =>
        \A d \in ast.instance.imports :
            /\ UsedElsewhere(d) => d.tok \in Range(result)
            /\ (UsedInTagged(d) /\ ~UsedElsewhere(d)) => d.tok \notin Range(result)

\* the CallExpression nodes of the tree
CallNodes(tree) == tree.fragment.calls \cup tree.instance.calls

\* `"i": <source text of argument i>` for the argument spans, joined by commas
RECURSIVE keyedArgs(_, _, _)
keyedArgs(text, spans, i) ==
    IF spans = <<>> THEN <<>>
    ELSE <<Key(i)>> \o slice(text, Head(spans)[1], Head(spans)[2])
         \o (IF Len(spans) > 1 THEN <<",">> \o keyedArgs(text, Tail(spans), i + 1) ELSE <<>>)

\* the fetch expression whose body has key i for the i-th argument of node c
expectedFetch(routePath, c) ==
    <<FetchHead, routePath, FetchMid, "{">> \o keyedArgs(original, c.args, 0)
        \o <<"}", FetchTail>>

\* the CallExpression node a replacement was computed from
nodeOf(e) == CHOOSE c \in CallNodes(ast) : c.name = e.name /\ c.start = e.call.start

\* C9: the body written for a call site with n arguments has exactly the keys
\* "0".."n-1", key i holding the source text of the i-th argument, and is {}
\* for n = 0
C9_PayloadKeys ==
    \A k \in 1..Len(log) : log[k].fetchCall = expectedFetch(log[k].routePath, nodeOf(log[k]))

(***************************************************************************)
(* Properties of the startup sequence                                      *)
(***************************************************************************)
\* C4: the second run of the startup sequence over the same source files
\* performs no file-system write
C4_SecondRunWritesNothing == (run = 2 /\ spc = "ready") => writes = 0

\* the tagged functions a tree declares: asynchronous, top-level, named server_
declaredIn(tree) ==
    IF ~tree.ok \/ ~tree.hasInstance THEN {}
    ELSE {f \in tree.instance.funcs : f.async /\ f.top /\ startsWithServer(f.name)}

\* <functionName>_<hash> of every tagged function of the .svelte documents
ExpectedDirs ==
    UNION {{generatePaths(f.name, fullPath(file)).routePath : f \in declaredIn(parse(files[file]))} :
              file \in {x \in DOMAIN files : endsWithSvelte(x)}}

\* the directories of the output root whose names begin with server_
GeneratedDirs == {n \in DOMAIN api : hasServerPrefix(n) /\ api[n].isDir}

\* C5: after a full sweep the server_ directories of the output root are
\* exactly those of the tagged functions the documents declare, each holding
\* a handler module
C5_DirsMatchFunctions ==
    spc = "ready" =>
        /\ GeneratedDirs = ExpectedDirs
        /\ \A n \in GeneratedDirs : api[n].hasServer

C7_FetchTargetsEndpoint ==
    spc = "ready" =>
        \A k \in 1..Len(log) :
            \E c \in created :
                /\ c.file = relative(SrcDir, filename)
                /\ c.name = log[k].name
                /\ c.dir = log[k].routePath
                /\ c.dir \in GeneratedDirs
                /\ api[c.dir].hasServer

\* the host named the document relative to the working directory, and the
\* transform rewrote a call of it
C7_Witness ==
    /\ spc = "ready"
    /\ tpc = "done"
    /\ log # <<>>
    /\ ~isAbsolute(filename)
    /\ run = 2

\* C8: one hashed pair always gets one id, and two different pairs never get
\* the same id
C8_DistinctPairsDistinctIds ==
    \A s1 \in HashInputs, s2 \in HashInputs :
        /\ Cardinality(issued[s1]) <= 1
        /\ s1 # s2 => issued[s1] \cap issued[s2] = {}

(***************************************************************************)
(* Properties of the call through the wire                                 *)
(***************************************************************************)
\* parameter i of an invocation with the argument list args
parameter(args, i) == IF i <= Len(args) THEN args[i] ELSE Undefined

\* C10: argument i of the call is parameter i of the invocation, for every
\* number of arguments and every argument value
C10_ArgumentsKeepPositions ==
    wpc = "invoked" => \A i \in 1..Len(callArgs) : parameter(invoked, i) = callArgs[i]

(***************************************************************************)
(* Properties of the hooks                                                 *)
(***************************************************************************)
\* the text 'async function server_' occurs in the document
HasMarkerText(text) ==
    \E i \in 1..Len(text) :
        /\ i + 4 <= Len(text)
        /\ SubSeq(text, i, i + 3) = <<"async", " ", "function", " ">>
        /\ text[i + 4] \in ServerNames

\* the filename is absent, does not end in .svelte, or contains .svelte-kit or
\* node_modules
ExcludedName(name) ==
    \/ name = NoFilename
    \/ name[Len(name)] \notin SvelteNames
    \/ \E i \in 1..Len(name) :
          name[i] \in {".svelte-kit", "node_modules", "my.svelte-kit", "mynode_modules"}

\* C11: for an excluded filename, and for a content without the marker text,
\* transformFile returns the content unchanged and attempts no parse
C11_SkipsWithoutParse ==
    (tpc = "done" /\ (ExcludedName(filename) \/ ~HasMarkerText(original)))
        => (result = original /\ parses = 0)

\* a document with the marker text was returned unparsed for its filename
C11_Witness ==
    /\ tpc = "done"
    /\ HasMarkerText(original)
    /\ "my.svelte-kit" \in Range(filename)
    /\ result = original
    /\ parses = 0

C13_TopLevelOnly == ast.ok => findServerFunctions(ast) = declaredIn(ast)

\* the functions of the documents the sweep visits on which no call throws:
\* the sweep read the directory, read the document, and no call of
\* createEndpoint throws for the function
SparedIn(file) ==
    {[file |-> file, name |-> func.name] :
        func \in {g \in Range(functionsOfFile(files[file])) :
                     ~fails("emit", file, g.name)}}

Spared ==
    UNION {SparedIn(file) :
             file \in {f \in DOMAIN files : /\ endsWithSvelte(f)
                                            /\ ~fails("scan", <<>>, "")
                                            /\ ~fails("read", f, "")}}

Emitted ==
    {[file |-> c.file, name |-> c.name] :
        c \in {d \in created : d.dir \in DOMAIN api /\ api[d.dir].hasServer}}

\* C14: a failure while a document is read or parsed, or while one endpoint is
\* emitted, is skipped: once the sweep has ended, every function the sweep
\* finds in a document it could read, and whose own emission did not fail,
\* has its endpoint on disk.
C14_FailuresAreSkipped == spc = "ready" => Spared \subseteq Emitted

C14_Witness ==
    /\ spc = "ready"
    /\ \E file \in DOMAIN files :
          /\ fails("emit", file, "server_f")
          /\ [file |-> file, name |-> "server_f"] \notin Emitted
          /\ [file |-> file, name |-> "server_g"] \in Emitted

\* what a call of createEndpoint for dir and apiContent does to the disk
WritesIff(dir, apiContent) ==
    IF \/ dir \notin DOMAIN api
       \/ ~api[dir].hasServer
       \/ api[dir].server # apiContent
    THEN /\ writes' = writes + 1
         /\ api'[dir] = Handler(apiContent)
    ELSE /\ writes' = writes
         /\ api' = api

WritesIffDetails(paths, func, details) ==
    WritesIff(paths.apiPath[Len(paths.apiPath) - 1],
              generateApiContent(details.functionDefinition, func.name, details.imports))

\* C15: a call of createEndpoint writes the handler file when no file is at the
\* target path or the file there holds other content, and makes no write when
\* the file there holds the rendered content already.
C15_WriteIffDifferent ==
    [][spc = "emit" =>
          WritesIffDetails(generatePaths(Head(pending.funcs).name, fullPath(pending.file)),
                           Head(pending.funcs),
                           extractFunctionDetails(pending.content, Head(pending.funcs)))]_vars

C15_Witness ==
    /\ spc = "ready"
    /\ writes >= 1
    /\ writes < Cardinality(created)

\* the entries of the output root that are directories named server_...
OwnedDirs ==
    {n \in DOMAIN api :
        /\ api[n].isDir
        /\ n \in {StaleDir} \cup {generatePaths(name, SrcDir \o rel).routePath :
                                     name \in ServerNames, rel \in {RelA, RelB}}}

C17_NothingPropagates ==
    /\ spc \in {"cleanup", "scan", "files", "emit", "ready"}
    /\ spc = "files" => scanLeft # {}
    /\ spc = "emit" => pending.funcs # <<>>
    /\ tpc \in {"idle", "called", "process", "done"}
    /\ tpc = "process" => todo # <<>>
    /\ (tpc = "done" /\ parseFailed /\ parses = 1) => result = original

C17_Witness ==
    /\ fails("scan", <<>>, "")
    /\ spc = "ready"
    /\ tpc = "done"
    /\ parseFailed
    /\ parses = 1
    /\ result = original

\* C18: every span applied to the buffer meets the text it was computed for.
\* Here for the spans of the call sites and of their argument lists: the
\* text a rewrite found at the span of a call, and the text it sliced as the
\* arguments, are the texts of the call and of its arguments in the document
\* that was parsed.
C18_SpansMeetTheirText ==
    \A k \in 1..Len(log) :
        /\ log[k].at = slice(original, log[k].call.start, log[k].call.end)
        /\ log[k].argsText = slice(original, log[k].call.arguments.start,
                                    log[k].call.arguments.end)

\* C19: the import pruning, with its parse of the buffer, runs after the last
\* tagged function of the document has been processed: while a function is
\* still to be processed, the only parse made is the constructor's.
C19_PruningAfterAllFunctions == (tpc = "process" /\ todo # <<>>) => parses = 1

\* the import declarations of the script of text that bind a name occurring
\* in the units from..to of text
NeededImports(text, from, to) ==
    {text[i] : i \in {k \in 1..Len(text) :
                        /\ text[k] \in ImportToks
                        /\ \E o \in 1..(k - 1) : text[o] = "<script>"
                        /\ \E c \in (k + 1)..Len(text) : text[c] = "</script>"
                        /\ \E j \in from..to : text[j] \in ImportNames(text[k])}}

Occurrences(module, tok) == {i \in 1..Len(module) : module[i] = tok}

Contains(module, part) ==
    \E i \in 1..(Len(module) - Len(part) + 1) : SubSeq(module, i, i + Len(part) - 1) = part

\* what the handler file of dir holds after createEndpoint for the function
\* spanning the units from..to of text
RendersFor(dir, text, from, to) ==
    /\ dir \in DOMAIN api'
    /\ Contains(api'[dir].server, SubSeq(text, from, to))
    /\ \A tok \in ImportToks :
          Cardinality(Occurrences(api'[dir].server, tok))
              = IF tok \in NeededImports(text, from, to) THEN 1 ELSE 0

RendersForPaths(paths, text, func) ==
    RendersFor(paths.apiPath[Len(paths.apiPath) - 1], text, func.start + 1, func.end)

\* C20: the handler module createEndpoint leaves on disk for a function holds
\* the text of the function's definition as it stands in the document, and
\* of the import declarations of the document's script it holds, once each,
\* those that bind a name occurring inside the function, and no other.
C20_ModuleHoldsNeededImports ==
    [][spc = "emit" =>
          RendersForPaths(generatePaths(Head(pending.funcs).name, fullPath(pending.file)),
                          pending.content, Head(pending.funcs))]_vars

C20_Witness ==
    \E c \in created :
        /\ c.name = "server_f"
        /\ c.dir \in DOMAIN api
        /\ ImportSide \in Range(files[c.file])
        /\ ImportAB \in Range(api[c.dir].server)
        /\ ImportSide \notin Range(api[c.dir].server)

\* the spans the transform edits: the call sites of the tagged functions and
\* the definitions of the tagged functions
EditSpans ==
    {[start |-> c.start, end |-> c.end] :
        c \in UNION {findFunctionCalls(ast, f.name) : f \in Tagged}}
    \cup {[start |-> f.start, end |-> f.end] : f \in Tagged}

\* C23: the spans the transform edits in one document are pairwise disjoint:
\* no call site lies inside another call site or inside the definition of a
\* tagged function.
C23_EditsDisjoint ==
    (tpc \in {"process", "done"} /\ ast.ok) =>
        \A e1, e2 \in EditSpans : e1 = e2 \/ e1.end <= e2.start \/ e2.end <= e1.start

\* offset `at` lies in a span the transform may change: a call site or the
\* definition of a tagged function, or an import declaration of the script
MayChange(at) ==
    \/ \E e \in EditSpans : e.start <= at /\ at < e.end
    \/ \E d \in ast.instance.imports : d.start <= at /\ at < d.end

\* the units of text from unit i on that the transform has to keep: those
\* outside every span it may change, whitespace left out
RECURSIVE KeptFrom(_, _)
KeptFrom(text, i) ==
    IF i > Len(text) THEN <<>>
    ELSE IF MayChange(i - 1) \/ text[i] \in WS THEN KeptFrom(text, i + 1)
    ELSE <<text[i]>> \o KeptFrom(text, i + 1)

\* the units of part occur in text from unit i on, in the order of part
RECURSIVE OccursInOrder(_, _, _)
OccursInOrder(part, text, i) ==
    IF part = <<>> THEN TRUE
    ELSE IF i > Len(text) THEN FALSE
    ELSE IF text[i] = Head(part) THEN OccursInOrder(Tail(part), text, i + 1)
    ELSE OccursInOrder(part, text, i + 1)

\* C21: the transform changes the call sites and the definitions of tagged
\* functions, import declarations and whitespace, and nothing else: the other
\* units of the document it was given occur in its result, in their order.
C21_OtherTextKept == Transformed0 => OccursInOrder(KeptFrom(original, 1), result, 1)

\* C22: the transform removes an import declaration only when one of its
\* local names is referenced inside a tagged function: an import without
\* names, and an import whose names the script never referenced, are in the
\* result.
C22_OnlyFreedImportsRemoved ==
    Transformed0 =>
        \A d \in ast.instance.imports : d.tok \notin Range(result) => UsedInTagged(d)

====
